---- MODULE Spec2Model ----
(***************************************************************************)
(* A model of src/app.py, the "Drum Sheet Music Extractor": the Process    *)
(* Video handler (download, probe sampling pass, page-count estimation,    *)
(* final sampling pass, PDF assembly, download offer) and the functions it *)
(* calls: clear_old_files, download_video_as_mp4, extract_frames,          *)
(* extract_total_pages and create_pdf_from_frames.                         *)
(*                                                                         *)
(* Strings are sequences of one-character strings, compared by code point  *)
(* as Python compares them.  Times are exact rationals [n, d] (d > 0): the *)
(* code computes them in floating point, the model in exact arithmetic.    *)
(***************************************************************************)
EXTENDS Integers, Sequences, FiniteSets, TLC

VARIABLES
    pc,              \* position of the Process Video handler
    pass,            \* which call of extract_frames is running: "probe" | "final"
    video,           \* [fps, frames]: what cv2 reports for the downloaded file
    guess,           \* extract_frames' argument total_pages
    intro,           \* extract_frames' argument intro_length
    handle,          \* the cv2.VideoCapture of extract_frames: "none" | "open" | "released"
    folderExists,    \* whether frames_<id> exists
    folder,          \* the files of frames_<id>: records [name, page, pass]
    segments,        \* extract_frames' list of timestamps (rationals, seconds)
    segIdx,          \* extract_frames' loop index i
    written,         \* page indices written by the running pass, in order of writing
    warned,          \* page indices the running pass warned about (decode failed)
    probeFrames,     \* page indices the probe pass wrote
    totalPages,      \* the handler's total_pages
    doc,             \* the pages of the written PDF, in order: records [page, pass]
    pdfWritten,      \* whether sheet_music_pages_<id>.pdf was written
    messages,        \* the st.error / st.success messages shown so far
    downloadOffered, \* whether st.download_button was shown
    executed,        \* the steps of the handler that have been entered
    ocrLines,        \* estimator input: the recognised lines, all frames concatenated
    ocrCuts,         \* estimator input: positions after which a new frame starts
    estimate,        \* extract_total_pages' outcome: [raised, total]
    runs             \* how many times the estimator was run on the input

vars == <<pc, pass, video, guess, intro, handle, folderExists, folder, segments,
          segIdx, written, warned, probeFrames, totalPages, doc, pdfWritten,
          messages, downloadOffered, executed, ocrLines, ocrCuts, estimate, runs>>

pipelineVars == <<pc, pass, video, guess, intro, handle, folderExists, folder,
                  segments, segIdx, written, warned, probeFrames, totalPages, doc,
                  pdfWritten, messages, downloadOffered, executed>>

estimatorVars == <<ocrLines, ocrCuts, estimate, runs>>

(***************************************************************************)
(* Bounds of the model and constants of the program.                       *)
(***************************************************************************)
MaxPages == 10        \* largest page total the recognised text shows
MaxLines == 3         \* most recognised lines in one estimator input
MaxFailures == 3      \* most reads that fail in one sampling pass
MaxRuns == 2          \* most estimator runs over one input
MaxFps == 2           \* largest frame rate drawn for the sampler
MaxFrames == 30       \* largest frame count drawn for the sampler
MaxIntro == 5         \* largest intro length drawn for the sampler
MaxGuess == 4         \* largest page count drawn for the sampler
ProbePages == 5       \* total_pages=5 of the first extract_frames call
IntroLengthDefault == 5   \* intro_length=5

(***************************************************************************)
(* Strings.                                                                *)
(***************************************************************************)
Digits == {"0", "1", "2", "3", "4", "5", "6", "7", "8", "9"}

DigitChar(d) ==
    CASE d = 0 -> "0" [] d = 1 -> "1" [] d = 2 -> "2" [] d = 3 -> "3" [] d = 4 -> "4"
      [] d = 5 -> "5" [] d = 6 -> "6" [] d = 7 -> "7" [] d = 8 -> "8" [] d = 9 -> "9"

DigitVal(c) ==
    CASE c = "0" -> 0 [] c = "1" -> 1 [] c = "2" -> 2 [] c = "3" -> 3 [] c = "4" -> 4
      [] c = "5" -> 5 [] c = "6" -> 6 [] c = "7" -> 7 [] c = "8" -> 8 [] c = "9" -> 9

\* The code point of a character (those that occur in file names).
Ord(c) ==
    CASE c = "." -> 46 [] c = "_" -> 95
      [] c = "a" -> 97 [] c = "e" -> 101 [] c = "g" -> 103 [] c = "j" -> 106
      [] c = "p" -> 112
      [] c \in Digits -> 48 + DigitVal(c)

\* str(n) for n >= 0: the decimal digits, no padding.
RECURSIVE Str(_)
Str(n) == IF n < 10 THEN <<DigitChar(n)>> ELSE Str(n \div 10) \o <<DigitChar(n % 10)>>

\* Python's < on strings: by code point at the first difference, a proper
\* prefix before the longer string.
RECURSIVE LexLess(_, _)
LexLess(a, b) ==
    IF b = <<>> THEN FALSE
    ELSE IF a = <<>> THEN TRUE
    ELSE IF Head(a) = Head(b) THEN LexLess(Tail(a), Tail(b))
    ELSE Ord(Head(a)) < Ord(Head(b))

EndsWith(s, suffix) ==
    /\ Len(s) >= Len(suffix)
    /\ SubSeq(s, Len(s) - Len(suffix) + 1, Len(s)) = suffix

JpgExt == <<".", "j", "p", "g">>

\* f"page_{i + 1}.jpg" for loop index i.
FramePath(i) == <<"p", "a", "g", "e", "_">> \o Str(i + 1) \o JpgExt

(***************************************************************************)
(* extract_total_pages: the page-count estimator.                          *)
(***************************************************************************)
Whitespace == {" "}

Contains(s, c) == \E i \in 1..Len(s) : s[i] = c

\* str.count for a one-character argument.
Count(s, c) == Cardinality({i \in 1..Len(s) : s[i] = c})

\* str.strip(): whitespace removed at both ends.
RECURSIVE LStrip(_)
LStrip(s) == IF s # <<>> /\ Head(s) \in Whitespace THEN LStrip(Tail(s)) ELSE s

RECURSIVE RStrip(_)
RStrip(s) ==
    IF s # <<>> /\ s[Len(s)] \in Whitespace THEN RStrip(SubSeq(s, 1, Len(s) - 1)) ELSE s

Strip(s) == RStrip(LStrip(s))

\* str.split(c): the pieces between the occurrences of c (one more than Count).
RECURSIVE Split(_, _)
Split(s, c) ==
    IF ~Contains(s, c) THEN <<s>>
    ELSE LET k == CHOOSE i \in 1..Len(s) : s[i] = c /\ \A j \in 1..(i - 1) : s[j] # c
         IN  <<SubSeq(s, 1, k - 1)>> \o Split(SubSeq(s, k + 1, Len(s)), c)

RECURSIVE DigitsValue(_)
DigitsValue(s) ==
    IF s = <<>> THEN 0 ELSE 10 * DigitsValue(SubSeq(s, 1, Len(s) - 1)) + DigitVal(s[Len(s)])

\* int(s): surrounding whitespace ignored, an optional sign, then one or more
\* digits; anything else raises ValueError.
IntOf(s) ==
    LET t == Strip(s)
        signed == t # <<>> /\ Head(t) \in {"+", "-"}
        body == IF signed THEN Tail(t) ELSE t
    IN  IF body # <<>> /\ \A i \in 1..Len(body) : body[i] \in Digits
        THEN [exc |-> "none",
              val |-> IF signed /\ Head(t) = "-" THEN 0 - DigitsValue(body)
                      ELSE DigitsValue(body)]
        ELSE [exc |-> "ValueError", val |-> 0]

\* _, pages = parts; pages = int(pages): unpacking anything but two pieces
\* raises ValueError as well.
PagesOf(parts) ==
    IF Len(parts) # 2 THEN [exc |-> "ValueError", val |-> 0] ELSE IntOf(parts[2])

\* if "/" in line and line.strip().count("/") == 1
IsMarkerLine(line) == Contains(line, "/") /\ Count(Strip(line), "/") = 1

\* A plausible slip: the handler names another exception class.
CaughtOther(exc) == exc = "TypeError"

\* except ValueError: continue
Caught(exc) == exc = "ValueError"

\* A plausible slip: the latest total is kept instead of the largest.
MaxLast(a, b) == b

\* max(total_pages, pages)
Max(a, b) == IF a >= b THEN a ELSE b

\* The body of the loop over the lines, for one line: the new running total,
\* or an exception that leaves the function.
LineStep(total, line) ==
    IF ~IsMarkerLine(line) THEN [raised |-> FALSE, total |-> total]
    ELSE LET p == PagesOf(Split(Strip(line), "/"))
         IN  IF p.exc = "none" THEN [raised |-> FALSE, total |-> Max(total, p.val)]
             ELSE IF Caught(p.exc) THEN [raised |-> FALSE, total |-> total]
             ELSE [raised |-> TRUE, total |-> total]

\* for line in text.splitlines(): ...
RECURSIVE ScanLines(_, _)
ScanLines(acc, text) ==
    IF acc.raised \/ text = <<>> THEN acc
    ELSE ScanLines(LineStep(acc.total, Head(text)), Tail(text))

\* for frame in sorted(os.listdir(frame_folder)): ...
RECURSIVE ScanFrames(_, _)
ScanFrames(acc, texts) ==
    IF acc.raised \/ texts = <<>> THEN acc
    ELSE ScanFrames(ScanLines(acc, Head(texts)), Tail(texts))

\* extract_total_pages over the recognised text of the frames, in the order
\* the frames are read: total_pages = 0, the two loops, return total_pages.
extract_total_pages(texts) == ScanFrames([raised |-> FALSE, total |-> 0], texts)

(***************************************************************************)
(* The estimator on its own: the recognised text is an input, drawn from   *)
(* lines a frame of such a video can show; the text recognition engine     *)
(* returns the lines, and the folder lists the frames, in no fixed order.  *)
(***************************************************************************)
OcrLines ==
    { <<"1", "/", "7">>,
      <<"2", "/", "7">>,
      <<"2", "/", "3">>,
      <<"g", "a", "r", "b", "a", "g", "e">>,
      <<"h", "e", "l", "l", "o">>,
      <<"3", "-", "7">>,
      <<"a", "/", "b">>,
      <<"1", "/", "2", "/", "3">>,
      <<"1", "/", "-", "4">>,
      <<" ", "1", "/", " ", "9", " ">>,
      <<"1", "/", "7", "a">> }

SeqsUpTo(S, n) == UNION {[1..k -> S] : k \in 0..n}

\* The text of each frame: the lines up to and including a cut position form
\* one frame, the lines after it the next.
FrameTexts(lines, cuts) ==
    IF lines = <<>> THEN <<>>
    ELSE LET frameOf(p) == 1 + Cardinality({c \in cuts : c < p})
             first(f) == CHOOSE p \in 1..Len(lines) :
                            /\ frameOf(p) = f
                            /\ \A q \in 1..Len(lines) : frameOf(q) = f => p <= q
             last(f) == CHOOSE p \in 1..Len(lines) :
                            /\ frameOf(p) = f
                            /\ \A q \in 1..Len(lines) : frameOf(q) = f => q <= p
         IN  [f \in 1..(Cardinality(cuts) + 1) |-> SubSeq(lines, first(f), last(f))]

Swap(s, i, j) == [k \in 1..Len(s) |-> IF k = i THEN s[j] ELSE IF k = j THEN s[i] ELSE s[k]]

NoEstimate == [raised |-> FALSE, total |-> 0]

\* The state of the handler before Process Video is clicked.
HandlerIdle ==
    /\ pc = "idle"
    /\ pass = "none"
    /\ video = [fps |-> 0, frames |-> 0]
    /\ guess = 0
    /\ intro = IntroLengthDefault
    /\ handle = "none"
    /\ folderExists = FALSE
    /\ folder = {}
    /\ segments = <<>>
    /\ segIdx = 0
    /\ written = <<>>
    /\ warned = {}
    /\ probeFrames = {}
    /\ totalPages = 0
    /\ doc = <<>>
    /\ pdfWritten = FALSE
    /\ messages = {}
    /\ downloadOffered = FALSE
    /\ executed = {}

EstimatorIdle ==
    /\ ocrLines = <<>>
    /\ ocrCuts = {}
    /\ estimate = NoEstimate
    /\ runs = 0

InitEstimate ==
    /\ HandlerIdle
    /\ ocrLines \in SeqsUpTo(OcrLines, MaxLines)
    /\ ocrCuts \in SUBSET (1..(Len(ocrLines) - 1))
    /\ estimate = NoEstimate
    /\ runs = 0

\* total_pages = extract_total_pages(frames_folder) on the given text.
EstimateText ==
    /\ runs < MaxRuns
    /\ estimate' = extract_total_pages(FrameTexts(ocrLines, ocrCuts))
    /\ runs' = runs + 1
    /\ UNCHANGED <<ocrLines, ocrCuts>>
    /\ UNCHANGED pipelineVars

\* The same lines reach the estimator in another order.
ReorderLines ==
    /\ \E i, j \in 1..Len(ocrLines) :
          /\ i < j
          /\ ocrLines' = Swap(ocrLines, i, j)
    /\ UNCHANGED <<ocrCuts, estimate, runs>>
    /\ UNCHANGED pipelineVars

\* The same lines are spread over the frames in another way.
RegroupLines ==
    /\ \E c \in SUBSET (1..(Len(ocrLines) - 1)) :
          /\ c # ocrCuts
          /\ ocrCuts' = c
    /\ UNCHANGED <<ocrLines, estimate, runs>>
    /\ UNCHANGED pipelineVars

NextEstimate == EstimateText \/ ReorderLines \/ RegroupLines

SpecEstimate == InitEstimate /\ [][NextEstimate]_vars

(***************************************************************************)
(* Exact rational arithmetic for the sampler's times.                      *)
(***************************************************************************)
Rat(n, d) == [n |-> n, d |-> d]

RatInt(k) == Rat(k, 1)

RatAdd(a, b) == Rat(a.n * b.d + b.n * a.d, a.d * b.d)

RatSub(a, b) == Rat(a.n * b.d - b.n * a.d, a.d * b.d)

RatMulInt(a, k) == Rat(a.n * k, a.d)

RatDivInt(a, k) == Rat(a.n, a.d * k)

RatLess(a, b) == a.n * b.d < b.n * a.d

RatEq(a, b) == a.n * b.d = b.n * a.d

(***************************************************************************)
(* extract_frames: the sampler.                                            *)
(***************************************************************************)
\* video_length = int(vidcap.get(cv2.CAP_PROP_FRAME_COUNT)) / fps
VideoLength(v) == Rat(v.frames, v.fps)

\* segment_duration = (video_length - intro_length) / total_pages
SegmentDuration(v, n, il) == RatDivInt(RatSub(VideoLength(v), RatInt(il)), n)

\* A plausible slip: the start of the segment instead of its midpoint.
SegmentStart(v, n, il, i) == RatAdd(RatInt(il), RatMulInt(SegmentDuration(v, n, il), i))

\* intro_length + segment_duration * i + segment_duration / 2
SegmentTime(v, n, il, i) ==
    RatAdd(RatAdd(RatInt(il), RatMulInt(SegmentDuration(v, n, il), i)),
           RatDivInt(SegmentDuration(v, n, il), 2))

\* segments = [... for i in range(total_pages)]
Segments(v, n, il) == [k \in 1..n |-> SegmentTime(v, n, il, k - 1)]

\* cv2.imwrite(frame_path, enhanced_frame): the file is created or replaced.
WriteFrame(files, i, p) ==
    {f \in files : f.name # FramePath(i)}
        \cup {[name |-> FramePath(i), page |-> i + 1, pass |-> p]}

\* Where the handler goes on after extract_frames returns.
AfterPass == IF pass = "probe" THEN "estimate" ELSE "assemble"

\* Lines 55-64: the folder is made, the video opened, the frame rate checked
\* and the timestamps computed.  On the early return nothing in the function
\* releases the capture: whether it is closed then is left to the runtime's
\* finalizer, so both outcomes are possible.
OpenVideo ==
    /\ pc = "open"
    /\ folderExists' = TRUE
    /\ IF video.fps = 0
       THEN /\ messages' = messages \cup {"invalid_fps"}
            /\ handle' \in {"open", "released"}
            /\ pc' = AfterPass
            /\ probeFrames' = IF pass = "probe" THEN {f.page : f \in folder} ELSE probeFrames
            /\ UNCHANGED <<segments, segIdx>>
       ELSE IF guess = 0
       THEN \* ZeroDivisionError at line 63
            /\ handle' = "open"
            /\ pc' = "crashed"
            /\ UNCHANGED <<messages, segments, segIdx, probeFrames>>
       ELSE /\ handle' = "open"
            /\ segments' = Segments(video, guess, intro)
            /\ segIdx' = 0
            /\ pc' = "read"
            /\ UNCHANGED <<messages, probeFrames>>
    /\ UNCHANGED <<pass, video, guess, intro, folder, written, warned, totalPages,
                   doc, pdfWritten, downloadOffered, executed>>
    /\ UNCHANGED estimatorVars

\* success of vidcap.read(): either, until the pass has had MaxFailures
\* failed reads.
ReadOutcomes == IF Cardinality(warned) < MaxFailures THEN BOOLEAN ELSE {TRUE}

\* A plausible slip: frames are numbered by how many were written so far.
ReadFrameRenumber ==
    /\ pc = "read"
    /\ segIdx < guess
    /\ \E success \in ReadOutcomes :
          IF success
          THEN /\ folder' = WriteFrame(folder, Len(written), pass)
               /\ written' = Append(written, Len(written) + 1)
               /\ UNCHANGED warned
          ELSE /\ warned' = warned \cup {segIdx + 1}
               /\ UNCHANGED <<folder, written>>
    /\ segIdx' = segIdx + 1
    /\ UNCHANGED <<pc, pass, video, guess, intro, handle, folderExists, segments,
                   probeFrames, totalPages, doc, pdfWritten, messages,
                   downloadOffered, executed>>
    /\ UNCHANGED estimatorVars

\* Lines 66-75, one iteration: seek to the timestamp and read; the read
\* succeeds or fails.
ReadFrame ==
    /\ pc = "read"
    /\ segIdx < guess
    /\ \E success \in ReadOutcomes :
          IF success
          THEN /\ folder' = WriteFrame(folder, segIdx, pass)
               /\ written' = Append(written, segIdx + 1)
               /\ UNCHANGED warned
          ELSE /\ warned' = warned \cup {segIdx + 1}
               /\ UNCHANGED <<folder, written>>
    /\ segIdx' = segIdx + 1
    /\ UNCHANGED <<pc, pass, video, guess, intro, handle, folderExists, segments,
                   probeFrames, totalPages, doc, pdfWritten, messages,
                   downloadOffered, executed>>
    /\ UNCHANGED estimatorVars

\* Line 76, after the loop: vidcap.release(), and the function returns.
ReleaseVideo ==
    /\ pc = "read"
    /\ segIdx = guess
    /\ handle' = "released"
    /\ pc' = AfterPass
    /\ probeFrames' = IF pass = "probe" THEN {f.page : f \in folder} ELSE probeFrames
    /\ UNCHANGED <<pass, video, guess, intro, folderExists, folder, segments, segIdx,
                   written, warned, totalPages, doc, pdfWritten, messages,
                   downloadOffered, executed>>
    /\ UNCHANGED estimatorVars

(***************************************************************************)
(* The sampler on its own: one call of extract_frames, its arguments and   *)
(* the video drawn from bounded sets.                                      *)
(***************************************************************************)
InitSample ==
    /\ pc = "open"
    /\ pass = "probe"
    /\ video \in [fps : 0..MaxFps, frames : 0..MaxFrames]
    /\ video.fps = 0 => video.frames = 0
    /\ guess \in 1..MaxGuess
    /\ intro \in 0..MaxIntro
    /\ handle = "none"
    /\ folderExists = FALSE
    /\ folder = {}
    /\ segments = <<>>
    /\ segIdx = 0
    /\ written = <<>>
    /\ warned = {}
    /\ probeFrames = {}
    /\ totalPages = 0
    /\ doc = <<>>
    /\ pdfWritten = FALSE
    /\ messages = {}
    /\ downloadOffered = FALSE
    /\ executed = {"probe"}
    /\ EstimatorIdle

NextSample == OpenVideo \/ ReadFrame \/ ReleaseVideo

SpecSample == InitSample /\ [][NextSample]_vars

(***************************************************************************)
(* The folder: clear_old_files, os.listdir and sorted.                     *)
(***************************************************************************)
\* A plausible slip: the old files are left in place.
KeepOldFiles(exists, files) == files

\* clear_old_files(folder): every file of an existing folder is removed.
clear_old_files(exists, files) == IF exists THEN {} ELSE files

\* The files of a folder by page index, smallest first.
RECURSIVE ByPage(_)
ByPage(files) ==
    IF files = {} THEN <<>>
    ELSE LET f == CHOOSE x \in files : \A y \in files : x.page <= y.page
         IN  <<f>> \o ByPage(files \ {f})

Rotate(s, k) == [i \in 1..Len(s) |-> s[((i + k - 1) % Len(s)) + 1]]

Reverse(s) == [i \in 1..Len(s) |-> s[Len(s) + 1 - i]]

\* os.listdir(folder): the files in an order the file system chooses; the
\* model draws it from the rotations of the page order and their reversals
\* (for up to three files, every order).
Listings(files) ==
    IF files = {} THEN {<<>>}
    ELSE {Rotate(ByPage(files), k) : k \in 0..(Cardinality(files) - 1)}
            \cup {Reverse(Rotate(ByPage(files), k)) : k \in 0..(Cardinality(files) - 1)}

\* x placed before the first element of the sorted sequence s that is greater.
RECURSIVE Insert(_, _)
Insert(x, s) ==
    IF s = <<>> THEN <<x>>
    ELSE IF LexLess(x.name, Head(s).name) THEN <<x>> \o s
    ELSE <<Head(s)>> \o Insert(x, Tail(s))

\* sorted(os.listdir(folder)): the names in Python's string order.
RECURSIVE Sorted(_)
Sorted(listing) ==
    IF listing = <<>> THEN <<>> ELSE Insert(Head(listing), Sorted(Tail(listing)))

(***************************************************************************)
(* create_pdf_from_frames: the assembler.                                  *)
(***************************************************************************)
\* images = [Image.open(...).convert("RGB") for frame in sorted(os.listdir(
\* frame_folder)) if frame.endswith(".jpg")]
Images(listing) ==
    LET jpgs == SelectSeq(Sorted(listing), LAMBDA f : EndsWith(f.name, JpgExt))
    IN  [k \in 1..Len(jpgs) |-> [page |-> jpgs[k].page, pass |-> jpgs[k].pass]]

\* A plausible slip: the document is written even when there is no image.
AlwaysSave(images) == TRUE

\* if images:
HasImages(images) == images # <<>>

\* create_pdf_from_frames(frames_folder, output_pdf)
Assemble ==
    /\ pc = "assemble"
    /\ executed' = executed \cup {"assemble"}
    /\ \E listing \in Listings(folder) :
          LET images == Images(listing)
          IN  IF HasImages(images)
              THEN /\ doc' = images
                   /\ pdfWritten' = TRUE
                   /\ messages' = messages \cup {"pdf_generated"}
                   /\ pc' = "pdf"
              ELSE /\ messages' = messages \cup {"no_frames"}
                   /\ pc' = "nopdf"
                   /\ UNCHANGED <<doc, pdfWritten>>
    /\ UNCHANGED <<pass, video, guess, intro, handle, folderExists, folder, segments,
                   segIdx, written, warned, probeFrames, totalPages, downloadOffered>>
    /\ UNCHANGED estimatorVars

(***************************************************************************)
(* The Process Video handler.                                              *)
(***************************************************************************)
\* What cv2 can report for a downloaded file: frame rate 0 for one it cannot
\* read, else a frame rate and the frame count.
Videos == {[fps |-> 0, frames |-> 0], [fps |-> 1, frames |-> MaxFrames]}

\* The text a frame shows: its pagination marker "k/n".
Marker(k, n) == Str(k) \o <<"/">> \o Str(n)

Garbage == <<"g", "a", "r", "b", "a", "g", "e">>

\* Lines 109-115: the run's names are made and clear_old_files is called on
\* the run's frames folder.
ProcessVideo ==
    /\ pc = "idle"
    /\ folder' = clear_old_files(folderExists, folder)
    /\ pc' = "download"
    /\ UNCHANGED <<pass, video, guess, intro, handle, folderExists, segments, segIdx,
                   written, warned, probeFrames, totalPages, doc, pdfWritten, messages,
                   downloadOffered, executed>>
    /\ UNCHANGED estimatorVars

\* Lines 118-122 and 147-148: download_video_as_mp4 returns the file, or None
\* after yt-dlp failed or left no file; with a file the probe pass is started.
Download ==
    /\ pc = "download"
    /\ \E outcome \in {"ok", "no_file", "yt_dlp_failed"} :
          IF outcome = "ok"
          THEN /\ video' \in Videos
               /\ pass' = "probe"
               /\ guess' = ProbePages
               /\ executed' = executed \cup {"probe"}
               /\ pc' = "open"
               /\ UNCHANGED messages
          ELSE /\ messages' = messages \cup {outcome, "download_failed"}
               /\ pc' = "done"
               /\ UNCHANGED <<video, pass, guess, executed>>
    /\ UNCHANGED <<intro, handle, folderExists, folder, segments, segIdx, written,
                   warned, probeFrames, totalPages, doc, pdfWritten, downloadOffered>>
    /\ UNCHANGED estimatorVars

\* Line 126: total_pages = extract_total_pages(frames_folder).  Each frame
\* shows a marker "k/n" that is recognised, or is recognised as garbage.
Estimate ==
    /\ pc = "estimate"
    /\ executed' = executed \cup {"estimate"}
    /\ \E listing \in Listings(folder), n \in 0..MaxPages, readable \in SUBSET folder :
          LET frames == Sorted(listing)
              texts == [k \in 1..Len(frames) |->
                          IF frames[k] \in readable
                          THEN <<Marker(frames[k].page, n)>> ELSE <<Garbage>>]
              out == extract_total_pages(texts)
          IN  IF out.raised
              THEN pc' = "crashed" /\ UNCHANGED totalPages
              ELSE pc' = "detected" /\ totalPages' = out.total
    /\ UNCHANGED <<pass, video, guess, intro, handle, folderExists, folder, segments,
                   segIdx, written, warned, probeFrames, doc, pdfWritten, messages,
                   downloadOffered>>
    /\ UNCHANGED estimatorVars

\* A plausible slip: the test is for a negative count.
PagesNegative(tp) == tp < 0

\* if total_pages == 0:
PagesUndetected(tp) == tp = 0

\* Lines 127-128: st.error("Failed to detect pages. ...")
DetectFailed ==
    /\ pc = "detected"
    /\ PagesUndetected(totalPages)
    /\ messages' = messages \cup {"detect_failed"}
    /\ pc' = "done"
    /\ UNCHANGED <<pass, video, guess, intro, handle, folderExists, folder, segments,
                   segIdx, written, warned, probeFrames, totalPages, doc, pdfWritten,
                   downloadOffered, executed>>
    /\ UNCHANGED estimatorVars

\* Lines 129-133: the probe frames are cleared and extract_frames is called
\* with the detected page count.
Resample ==
    /\ pc = "detected"
    /\ ~PagesUndetected(totalPages)
    /\ folder' = clear_old_files(folderExists, folder)
    /\ pass' = "final"
    /\ guess' = totalPages
    /\ written' = <<>>
    /\ warned' = {}
    /\ executed' = executed \cup {"resample"}
    /\ pc' = "open"
    /\ UNCHANGED <<video, intro, handle, folderExists, segments, segIdx, probeFrames,
                   totalPages, doc, pdfWritten, messages, downloadOffered>>
    /\ UNCHANGED estimatorVars

\* Lines 137-144: if pdf_path: st.download_button(...)
OfferDownload ==
    /\ pc = "pdf"
    /\ downloadOffered' = TRUE
    /\ executed' = executed \cup {"offer"}
    /\ pc' = "done"
    /\ UNCHANGED <<pass, video, guess, intro, handle, folderExists, folder, segments,
                   segIdx, written, warned, probeFrames, totalPages, doc, pdfWritten,
                   messages>>
    /\ UNCHANGED estimatorVars

\* Lines 145-146: st.error("Failed to generate PDF.")
ReportNoPdf ==
    /\ pc = "nopdf"
    /\ messages' = messages \cup {"pdf_failed"}
    /\ pc' = "done"
    /\ UNCHANGED <<pass, video, guess, intro, handle, folderExists, folder, segments,
                   segIdx, written, warned, probeFrames, totalPages, doc, pdfWritten,
                   downloadOffered, executed>>
    /\ UNCHANGED estimatorVars

Init == HandlerIdle /\ EstimatorIdle

Next ==
    \/ ProcessVideo
    \/ Download
    \/ OpenVideo
    \/ ReadFrame
    \/ ReleaseVideo
    \/ Estimate
    \/ DetectFailed
    \/ Resample
    \/ Assemble
    \/ OfferDownload
    \/ ReportNoPdf

Spec == Init /\ [][Next]_vars

(***************************************************************************)
(* Properties of the handler (specification Spec).                         *)
(***************************************************************************)
InSampler == pc \in {"open", "read"}

\* C1: in no state after extract_frames has returned is the video handle it
\* opened still held, the early return on frame rate 0 included.
C1_HandleReleasedOnReturn == ~InSampler => handle # "open"

\* C2: once extract_frames has reported the invalid frame rate, none of the
\* later steps of the run (estimation, resampling, assembly, download offer)
\* is executed.
C2_InvalidVideoAborts ==
    "invalid_fps" \in messages =>
        executed \cap {"estimate", "resample", "assemble", "offer"} = {}

\* C3: when the final frames are page_1.jpg .. page_N.jpg, the document's
\* pages are in increasing numeric page index 1, 2, ..., N.
C3_PagesInNumericOrder ==
    (pdfWritten /\ {f.page : f \in folder} = 1..totalPages) =>
        /\ Len(doc) = totalPages
        /\ \A k \in 1..Len(doc) : doc[k].page = k

\* C4: if the estimator returns 0 the run fails: no second sampling pass (the
\* sampler is only ever called with a page count >= 1), no assembly, no
\* document, no download offer, and an error is reported.
C4_ZeroPagesFailsRun ==
    /\ InSampler => guess >= 1
    /\ ("estimate" \in executed /\ totalPages = 0) =>
          /\ pc \in {"detected", "done"}
          /\ executed \cap {"resample", "assemble", "offer"} = {}
          /\ ~pdfWritten
          /\ ~downloadOffered
          /\ pc = "done" => "detect_failed" \in messages

\* C4's case: the probe pass wrote frames, the estimator found no page count
\* in them and the run has ended with the error.
C4_Witness ==
    /\ pc = "done"
    /\ "estimate" \in executed
    /\ probeFrames # {}
    /\ totalPages = 0
    /\ "detect_failed" \in messages

\* The files the assembler takes: those whose name ends in ".jpg".
Qualifying == {f \in folder : EndsWith(f.name, JpgExt)}

\* C9: with zero qualifying files the assembler reports an error, returns no
\* path and writes no file, and the run offers no download.
C9_EmptyAssemblyFails ==
    ("assemble" \in executed /\ Qualifying = {}) =>
        /\ pc \in {"nopdf", "done"}
        /\ "no_frames" \in messages
        /\ ~pdfWritten
        /\ doc = <<>>
        /\ ~downloadOffered
        /\ "offer" \notin executed
        /\ pc = "done" => "pdf_failed" \in messages

\* C9's case: every read of the final pass failed, the assembler ran on the
\* empty folder and the run has ended with the error.
C9_Witness ==
    /\ pc = "done"
    /\ "assemble" \in executed
    /\ totalPages >= 1
    /\ Cardinality(warned) = totalPages
    /\ Qualifying = {}
    /\ "pdf_failed" \in messages

\* C10: the pages of the document are exactly the frames the final pass
\* decoded; no frame of the probe pass is among them.
C10_NoProbeFrameInDocument ==
    pdfWritten =>
        /\ {doc[k].page : k \in 1..Len(doc)} = {written[k] : k \in 1..Len(written)}
        /\ Len(doc) = Len(written)
        /\ \A k \in 1..Len(doc) : doc[k].pass = "final"

\* C10's case: the final pass failed to decode an index the probe pass had
\* written, and the document was assembled.
C10_Witness ==
    /\ pdfWritten
    /\ pass = "final"
    /\ \E k \in probeFrames : k \in warned

(***************************************************************************)
(* Properties of the sampler (specification SpecSample).                   *)
(***************************************************************************)
\* pageCountGuess >= 1 and introLength < duration, for a readable video.
ValidSample == guess >= 1 /\ video.fps > 0 /\ intro * video.fps < video.frames

WrittenSet == {written[k] : k \in 1..Len(written)}

\* C5: one pass writes at most pageCountGuess frames, each under a distinct
\* page index in 1..pageCountGuess, in increasing order; a failed read at
\* segment i skips exactly index i+1 and changes no other index.
C5_FramesKeepTheirIndex ==
    (ValidSample /\ pc # "open") =>
        /\ Len(written) <= guess
        /\ \A k \in 1..Len(written) : written[k] \in 1..guess
        /\ \A k \in 1..(Len(written) - 1) : written[k] < written[k + 1]
        /\ WrittenSet = (1..segIdx) \ warned
        /\ folder = {[name |-> FramePath(p - 1), page |-> p, pass |-> pass] :
                        p \in WrittenSet}
        /\ pc # "read" => segIdx = guess

\* C5's case: a read failed, a later one succeeded, and the pass has returned.
C5_Witness ==
    /\ ValidSample
    /\ pc = "estimate"
    /\ \E w \in warned : \E k \in 1..Len(written) : written[k] > w

\* The midpoint of segment i, as the closed form
\* introLength + (duration - introLength) * (2i + 1) / (2 * pageCountGuess).
Midpoint(i) ==
    Rat(2 * guess * video.fps * intro + (video.frames - intro * video.fps) * (2 * i + 1),
        2 * guess * video.fps)

\* C6: the timestamp of segment i is the midpoint of the i-th of the equal
\* segments of the usable duration; the timestamps are strictly increasing
\* and lie strictly between introLength and duration; guess=4, duration=25,
\* intro=5 gives 7.5, 12.5, 17.5, 22.5.
C6_SegmentMidpoints ==
    (ValidSample /\ pc # "open") =>
        /\ Len(segments) = guess
        /\ \A k \in 1..guess :
              /\ segments[k].d > 0
              /\ RatEq(segments[k], Midpoint(k - 1))
              /\ RatLess(RatInt(intro), segments[k])
              /\ RatLess(segments[k], Rat(video.frames, video.fps))
        /\ \A k \in 1..(guess - 1) : RatLess(segments[k], segments[k + 1])
        /\ (guess = 4 /\ intro = 5 /\ video.frames = 25 * video.fps) =>
              \A k \in 1..4 : RatEq(segments[k], Rat(10 * k + 5, 2))

\* C6's case: the sampler has computed the timestamps of a 25 s video with a
\* 5 s intro and 4 pages.
C6_Witness ==
    /\ pc = "read"
    /\ guess = 4
    /\ intro = 5
    /\ video.fps > 0
    /\ video.frames = 25 * video.fps
    /\ Len(segments) = 4
    /\ RatEq(segments[1], Rat(15, 2))

(***************************************************************************)
(* Properties of the estimator (specification SpecEstimate).  What a line  *)
(* says is defined here from the text alone, not by the estimator's steps: *)
(* a line carries a total when it has exactly one "/" and the text right   *)
(* of it is an integer (blanks, an optional sign, digits, blanks).         *)
(***************************************************************************)
SlashPositions(line) == {i \in 1..Len(line) : line[i] = "/"}

RightHandSide(line) ==
    SubSeq(line, (CHOOSE i \in SlashPositions(line) : TRUE) + 1, Len(line))

IsIntegerText(s) ==
    \E a \in 1..Len(s), b \in 1..Len(s) :
        /\ a <= b
        /\ \A i \in 1..Len(s) : (i < a \/ i > b) => s[i] = " "
        /\ LET from == IF s[a] \in {"+", "-"} THEN a + 1 ELSE a
           IN  /\ from <= b
               /\ \A i \in from..b : s[i] \in Digits

RECURSIVE Pow10(_)
Pow10(k) == IF k = 0 THEN 1 ELSE 10 * Pow10(k - 1)

RECURSIVE PlaceSum(_, _)
PlaceSum(s, positions) ==
    IF positions = {} THEN 0
    ELSE LET i == CHOOSE x \in positions : TRUE
             place == Cardinality({j \in 1..Len(s) : j > i /\ s[j] \in Digits})
         IN  DigitVal(s[i]) * Pow10(place) + PlaceSum(s, positions \ {i})

IntegerValue(s) ==
    LET magnitude == PlaceSum(s, {i \in 1..Len(s) : s[i] \in Digits})
    IN  IF \E i \in 1..Len(s) : s[i] = "-" THEN 0 - magnitude ELSE magnitude

HasTotal(line) ==
    /\ Cardinality(SlashPositions(line)) = 1
    /\ IsIntegerText(RightHandSide(line))

\* The totals of the recognised lines, whatever their order and grouping.
Totals ==
    {IntegerValue(RightHandSide(ocrLines[i])) :
        i \in {j \in 1..Len(ocrLines) : HasTotal(ocrLines[j])}}

SetMax(S) == CHOOSE m \in S : \A x \in S : x <= m

\* C7 as stated: the estimator's result is the maximum total over all frames
\* and lines (0 when no line carries one), whatever the order of the frames
\* and lines, and the same on every run.
C7_MaximumTotalAnyOrder ==
    runs > 0 =>
        /\ ~estimate.raised
        /\ estimate = extract_total_pages(FrameTexts(ocrLines, ocrCuts))
        /\ estimate.total = IF Totals = {} THEN 0 ELSE SetMax(Totals)

\* C7 as amended: the estimator's result is the maximum of 0 and the totals
\* over all frames and lines, whatever the order of the frames and lines,
\* and the same on every run.
C7_MaximumOfZeroAndTotalsAnyOrder ==
    runs > 0 =>
        /\ ~estimate.raised
        /\ estimate = extract_total_pages(FrameTexts(ocrLines, ocrCuts))
        /\ estimate.total = SetMax(Totals \cup {0})

\* C7's case: "1/7", "garbage", "2/7" in an order other than this one, in
\* more than one frame, estimated twice: 7.
C7_Witness ==
    /\ runs = 2
    /\ Len(ocrLines) = 3
    /\ ocrLines[1] = <<"2", "/", "7">>
    /\ ocrLines[2] = <<"1", "/", "7">>
    /\ ocrLines[3] = <<"g", "a", "r", "b", "a", "g", "e">>
    /\ ocrCuts # {}
    /\ estimate.total = 7

\* C8: the estimator returns 0, without raising, whenever no line has exactly
\* one "/" with an integer right of it; such lines are skipped and never
\* change the running maximum.
C8_NoMarkerGivesZero ==
    runs > 0 =>
        /\ (\A i \in 1..Len(ocrLines) : ~HasTotal(ocrLines[i])) =>
              estimate = [raised |-> FALSE, total |-> 0]
        /\ \A i \in 1..Len(ocrLines) :
              ~HasTotal(ocrLines[i]) =>
                  \A t \in 0..MaxPages :
                      LineStep(t, ocrLines[i]) = [raised |-> FALSE, total |-> t]

\* C8's case: "hello", "3-7", "a/b" estimated: 0.
C8_Witness ==
    /\ runs > 0
    /\ ocrLines = << <<"h", "e", "l", "l", "o">>, <<"3", "-", "7">>, <<"a", "/", "b">> >>
    /\ estimate = [raised |-> FALSE, total |-> 0]

====
